---- MODULE Spec2Model ----
(***************************************************************************)
(* A model of the dealer-listing scraper (src/dubizzler-scraper.py) and of *)
(* the staleness computation of its dashboard (src/dubizzler.py).          *)
(*                                                                         *)
(* Python strings are TLA+ strings; TLC evaluates Len, \o and SubSeq on    *)
(* them, so every text operation of the code (lower, strip, split, the     *)
(* substring test, the f-string joins) is computed character by character. *)
(***************************************************************************)
EXTENDS Integers, Sequences, FiniteSets, TLC

VARIABLES
    dealers_data,       \* the rows of the 'dealers' tab
    sheet,              \* the values of the 'database' tab, header row first
    run,                \* how many times main() has been started
    now,                \* datetime.now(), in days
    pc,                 \* where main() stands; "ended" when it is not running
    d,                  \* the index in dealers_data of the dealer in the loop
    all_cars,           \* main's all_cars
    unique_cars,        \* main's unique_cars
    existing_car_ids,   \* main's existing_car_ids
    total_cars_added,   \* main's total_cars_added
    new_cars_added,     \* main's new_cars_added
    response,           \* what the last requests.get of the run gave
    error,              \* the exception main's except clause caught, or "none"
    printed,            \* the lines the last step of main() printed
    call                \* one invocation of a pure function: [fn, arg, state, ret]

mainVars == <<dealers_data, sheet, run, now, pc, d, all_cars, unique_cars,
              existing_car_ids, total_cars_added, new_cars_added, response, error,
              printed>>

vars == <<dealers_data, sheet, run, now, pc, d, all_cars, unique_cars,
          existing_car_ids, total_cars_added, new_cars_added, response, error,
          printed, call>>

-----------------------------------------------------------------------------
(* Text helpers: the Python str operations the code uses.                  *)

\* s[i] as a one-character string (1-based).
Ch(s, i) == SubSeq(s, i, i)

\* s[i:] of Python, 1-based: the suffix starting at position i.
From(s, i) == SubSeq(s, i, Len(s))

\* `sub in s` of Python.
Contains(sub, s) ==
    \E i \in 1..(Len(s) - Len(sub) + 1) : SubSeq(s, i, i + Len(sub) - 1) = sub

UpperLetters == "ABCDEFGHIJKLMNOPQRSTUVWXYZ"
LowerLetters == "abcdefghijklmnopqrstuvwxyz"

UpperSet == {Ch(UpperLetters, i) : i \in 1..26}

LowerOf ==
    [c \in UpperSet |-> Ch(LowerLetters, CHOOSE i \in 1..26 : Ch(UpperLetters, i) = c)]

LowerCh(c) == IF c \in UpperSet THEN LowerOf[c] ELSE c

\* str.lower()
RECURSIVE Lower(_)
Lower(s) == IF s = "" THEN "" ELSE LowerCh(Ch(s, 1)) \o Lower(From(s, 2))

\* The whitespace of str.split() and str.strip(): the blank and the tab.
Whitespace == {" ", "\t"}

\* str.split() without arguments: the maximal runs of non-whitespace.
RECURSIVE SplitLoop(_, _, _)
SplitLoop(s, cur, acc) ==
    IF s = ""
    THEN IF cur = "" THEN acc ELSE Append(acc, cur)
    ELSE IF Ch(s, 1) \in Whitespace
         THEN SplitLoop(From(s, 2), "", IF cur = "" THEN acc ELSE Append(acc, cur))
         ELSE SplitLoop(From(s, 2), cur \o Ch(s, 1), acc)

Split(s) == SplitLoop(s, "", <<>>)

\* str.strip()
RECURSIVE LStrip(_)
LStrip(s) == IF s # "" /\ Ch(s, 1) \in Whitespace THEN LStrip(From(s, 2)) ELSE s

RECURSIVE RStrip(_)
RStrip(s) ==
    IF s # "" /\ Ch(s, Len(s)) \in Whitespace THEN RStrip(SubSeq(s, 1, Len(s) - 1)) ELSE s

Strip(s) == RStrip(LStrip(s))

DigitLetters == "0123456789"
Digits == {Ch(DigitLetters, i) : i \in 1..10}

\* The characters \w of a regular expression matches: letters, digits, "_".
WordChars ==
    UpperSet \cup {Ch(LowerLetters, i) : i \in 1..26} \cup Digits \cup {"_"}

\* ''.join(filter(str.isdigit, s))
RECURSIVE OnlyDigits(_)
OnlyDigits(s) ==
    IF s = "" THEN ""
    ELSE (IF Ch(s, 1) \in Digits THEN Ch(s, 1) ELSE "") \o OnlyDigits(From(s, 2))

\* str(int(digits)) for a non-empty string of digits: leading zeros go.
RECURSIVE IntText(_)
IntText(digits) ==
    IF Len(digits) > 1 /\ Ch(digits, 1) = "0" THEN IntText(From(digits, 2)) ELSE digits

\* f"{value:,}" for the decimal text of a non-negative integer.
RECURSIVE Thousands(_)
Thousands(text) ==
    IF Len(text) <= 3 THEN text
    ELSE Thousands(SubSeq(text, 1, Len(text) - 3)) \o "," \o From(text, Len(text) - 2)

\* All strings over the characters of `alphabet` of length at most n.
RECURSIVE StringsUpTo(_, _)
StringsUpTo(alphabet, n) ==
    IF n = 0 THEN {""}
    ELSE LET shorter == StringsUpTo(alphabet, n - 1)
         IN  shorter \cup {s \o c : s \in shorter, c \in alphabet}

\* The result of a Python call: a returned value, or a raised exception.
Return(v) == [ok |-> TRUE, val |-> v]
Raise(e) == [ok |-> FALSE, val |-> e]

\* The "unknown" sentinel of the code.
NA == "N/A"

-----------------------------------------------------------------------------
(* extract_car_brand                                                       *)

Brands == <<
    "Toyota", "Honda", "Ford", "Chevrolet", "Nissan", "Hyundai", "Kia", "Mazda",
    "Volkswagen", "BMW", "Mercedes", "Audi", "Lexus", "Jeep", "Subaru", "Volvo",
    "Mitsubishi", "Suzuki", "Peugeot", "Renault", "Fiat", "Citroen", "Opel",
    "Skoda", "Seat", "Land Rover", "Range Rover", "Jaguar", "Porsche", "Ferrari",
    "Lamborghini", "Maserati", "Bentley", "Rolls Royce", "Mini", "Infiniti",
    "Acura", "Cadillac", "Lincoln", "Buick", "GMC", "Dodge", "Chrysler", "Jeep",
    "Ram", "Tesla", "BYD", "Chery", "Geely", "MG", "Proton", "Daihatsu", "Isuzu" >>

\* brand.lower(), for every entry of the catalog.
LowerBrands == [i \in DOMAIN Brands |-> Lower(Brands[i])]

\* `brand.lower() in car_name.lower()`, for the catalog's entry i.
BrandMatches(i, car_name) == Contains(LowerBrands[i], Lower(car_name))

\* The for loop over brands, from entry i on: the first match returns.
RECURSIVE BrandLoop(_, _)
BrandLoop(i, car_name) ==
    IF i > Len(Brands)
    THEN \* car_name.split()[0]
         LET words == Split(car_name)
         IN  IF words = <<>> THEN Raise("IndexError") ELSE Return(words[1])
    ELSE IF BrandMatches(i, car_name)
         THEN Return(Brands[i])
         ELSE BrandLoop(i + 1, car_name)

\* A classifier that lets the last matching catalog entry win.
RECURSIVE LastBrandLoop(_, _)
LastBrandLoop(i, car_name) ==
    IF i < 1
    THEN LET words == Split(car_name)
         IN  IF words = <<>> THEN Raise("IndexError") ELSE Return(words[1])
    ELSE IF BrandMatches(i, car_name)
         THEN Return(Brands[i])
         ELSE LastBrandLoop(i - 1, car_name)

ExtractCarBrandLastMatch(car_name) ==
    IF car_name = NA THEN Return(NA) ELSE LastBrandLoop(Len(Brands), car_name)

ExtractCarBrand(car_name) ==
    IF car_name = NA THEN Return(NA) ELSE BrandLoop(1, car_name)

-----------------------------------------------------------------------------
(* parse_listing_time                                                      *)

\* How many characters of s, from position i on, lie in `chars` before the
\* first that does not: what a greedy \d+, \s+ or \w+ consumes there.
RECURSIVE Span(_, _, _)
Span(s, i, chars) ==
    IF i <= Len(s) /\ Ch(s, i) \in chars THEN 1 + Span(s, i + 1, chars) ELSE 0

DigitValue == [c \in Digits |-> CHOOSE v \in 0..9 : Ch(DigitLetters, v + 1) = c]

\* int(value) for a string of digits.
RECURSIVE IntOf(_)
IntOf(digits) ==
    IF digits = "" THEN 0
    ELSE 10 * IntOf(SubSeq(digits, 1, Len(digits) - 1)) + DigitValue[Ch(digits, Len(digits))]

\* re.match(r'(\d+)\s+(\w+)\s+ago', listing_time): the match starts at the
\* first character and may end before the last.  Each of the four runs is
\* followed by a pattern element that cannot start with a character of the
\* run, so only the longest run can lead to a match.  \s is the whitespace
\* of Whitespace.
ListingTimeMatch(listing_time) ==
    LET digits == Span(listing_time, 1, Digits)
        gap1 == Span(listing_time, digits + 1, Whitespace)
        word == Span(listing_time, digits + gap1 + 1, WordChars)
        gap2 == Span(listing_time, digits + gap1 + word + 1, Whitespace)
        ago == digits + gap1 + word + gap2 + 1
    IN  IF /\ digits > 0 /\ gap1 > 0 /\ word > 0 /\ gap2 > 0
           /\ ago + 2 <= Len(listing_time)
           /\ SubSeq(listing_time, ago, ago + 2) = "ago"
        THEN [matched |-> TRUE,
              value |-> SubSeq(listing_time, 1, digits),
              unit |-> SubSeq(listing_time, digits + gap1 + 1, digits + gap1 + word)]
        ELSE [matched |-> FALSE, value |-> "", unit |-> ""]

\* What parse_listing_time returns: the text "N/A", an int or a float.  A
\* number of days is held in hundredths of a day.
Days(type, hundredths) == [type |-> type, hundredths |-> hundredths]
DaysNA == Days("str", 0)

\* The counts of minutes up to 1000 at which value / (24 * 60) lies halfway
\* between two hundredths and round() gives the upper one: the quotient is
\* not a binary fraction, and the double nearest to it lies above the
\* halfway point at these counts and below it at the other odd multiples of
\* 36.
MinuteTiesRoundedUp == {36, 324, 396, 468, 540, 756, 972}

\* round(value / (24 * 60), 2), in hundredths.
RoundMinutes(value) ==
    LET q == (100 * value) \div (24 * 60)
        r == (100 * value) % (24 * 60)
    IN  IF 2 * r < 24 * 60 THEN q
        ELSE IF 2 * r > 24 * 60 THEN q + 1
        ELSE IF value \in MinuteTiesRoundedUp THEN q + 1 ELSE q

\* round(value / 24, 2), in hundredths.  A quotient halfway between two
\* hundredths is an odd multiple of 1/8, which a double holds exactly, and
\* round() takes the even neighbour.
RoundHours(value) ==
    LET q == (100 * value) \div 24
        r == (100 * value) % 24
    IN  IF 2 * r < 24 THEN q
        ELSE IF 2 * r > 24 THEN q + 1
        ELSE IF q % 2 = 0 THEN q ELSE q + 1

ParseListingTime(listing_time) ==
    IF listing_time = NA THEN DaysNA
    ELSE LET match == ListingTimeMatch(listing_time)
             value == IntOf(match.value)
             unit == match.unit
         IN  IF ~match.matched THEN DaysNA
             ELSE IF Contains("minute", unit) THEN Days("float", RoundMinutes(value))
             ELSE IF Contains("hour", unit) THEN Days("float", RoundHours(value))
             ELSE IF Contains("day", unit) THEN Days("int", 100 * value)
             ELSE IF Contains("week", unit) THEN Days("int", 100 * (value * 7))
             ELSE IF Contains("month", unit) THEN Days("int", 100 * (value * 30))
             ELSE IF Contains("year", unit) THEN Days("int", 100 * (value * 365))
             ELSE DaysNA

-----------------------------------------------------------------------------
(* The site adapters: scrape_dubizzle_cars and scrape_hatla2ee_cars.  The  *)
(* 'Days on Website' cell of a record (parse_listing_time of the posted    *)
(* age for dubizzle, the days since the posting date for hatla2ee) is read *)
(* by nothing in main() and is left out of the records.                    *)

\* A sub-element of a listing card, as select_one gives it: an element with
\* its text, or None.
Elem(text) == [present |-> TRUE, text |-> text]
NoElem == [present |-> FALSE, text |-> ""]

\* `elem.text.strip() if elem else "N/A"`
TextOrNA(elem) == IF elem.present THEN Strip(elem.text) ELSE NA

\* hashlib.md5(...).hexdigest(): the digest is not computed; it is taken to
\* be free of collisions, so a digest is identified by the text digested.
Md5(text) == <<"md5", text>>

\* f"{dealer_code}_{car_name}_{year}_{kilometrage}" of scrape_dubizzle_cars.
DubizzleCarDetails(dealer_code, car_name, year, kilometrage) ==
    dealer_code \o "_" \o car_name \o "_" \o year \o "_" \o kilometrage

\* A hatla2ee adapter that leaves the dealer out of the digested text.
Hatla2eeCarDetailsNoDealer(dealer_code, car_name, year, kilometrage) ==
    car_name \o "_" \o year \o "_" \o kilometrage

\* f"{dealer_code}_{car_name}_{year}_{kilometrage}" of scrape_hatla2ee_cars.
Hatla2eeCarDetails(dealer_code, car_name, year, kilometrage) ==
    dealer_code \o "_" \o car_name \o "_" \o year \o "_" \o kilometrage

DubizzleBaseUrl == "https://www.dubizzle.com.eg"

\* The body of scrape_dubizzle_cars' loop for one card: the record appended
\* to cars_data, or the exception extract_car_brand raised.
DubizzleCar(card, dealer_code, current_time) ==
    LET car_name == TextOrNA(card.name)
        car_brand == ExtractCarBrand(car_name)
        price == TextOrNA(card.price)
        kilometrage == TextOrNA(card.km)
        year == TextOrNA(card.year)
        listing_time == TextOrNA(card.time)
        location == TextOrNA(card.location)
        listing_url == IF card.href.present
                       THEN DubizzleBaseUrl \o card.href.text
                       ELSE NA
        car_details == DubizzleCarDetails(dealer_code, car_name, year, kilometrage)
    IN  IF ~car_brand.ok THEN car_brand
        ELSE Return([car_id |-> Md5(car_details),
                     dealer_code |-> dealer_code,
                     created_at |-> current_time,
                     Car_Brand |-> car_brand.val,
                     Car_Name |-> car_name,
                     Price |-> price,
                     Kilometrage |-> kilometrage,
                     Year |-> year,
                     Location |-> location,
                     Listed |-> listing_time,
                     Listing_URL |-> listing_url])

\* The price of scrape_hatla2ee_cars: the digits of the price element as an
\* integer, written "EGP X,XXX,XXX".
Hatla2eePrice(price_elem) ==
    IF ~price_elem.present THEN NA
    ELSE LET price_numbers == OnlyDigits(Strip(price_elem.text))
         IN  IF price_numbers = "" THEN NA
             ELSE "EGP " \o Thousands(IntText(price_numbers))

\* The loop over meta_tags for the kilometrage: the last tag holding 'Km'.
RECURSIVE Hatla2eeKilometrage(_, _)
Hatla2eeKilometrage(meta_tags, kilometrage) ==
    IF meta_tags = <<>> THEN kilometrage
    ELSE LET text == Strip(Head(meta_tags))
         IN  Hatla2eeKilometrage(Tail(meta_tags),
                                 IF Contains("Km", text) THEN text ELSE kilometrage)

Cities == {"Cairo", "Giza", "Alexandria", "Heliopolis"}

\* The loop over meta_tags for the location: the last tag without 'Km'
\* that holds one of the city names.
RECURSIVE Hatla2eeLocation(_, _)
Hatla2eeLocation(meta_tags, location) ==
    IF meta_tags = <<>> THEN location
    ELSE LET text == Strip(Head(meta_tags))
         IN  Hatla2eeLocation(Tail(meta_tags),
                 IF ~Contains("Km", text) /\ \E city \in Cities : Contains(city, text)
                 THEN text ELSE location)

\* re.search(r'\b20\d{2}\b', car_name): where a match starts.
YearMatchAt(car_name, i) ==
    /\ i + 3 <= Len(car_name)
    /\ SubSeq(car_name, i, i + 1) = "20"
    /\ Ch(car_name, i + 2) \in Digits
    /\ Ch(car_name, i + 3) \in Digits
    /\ i = 1 \/ Ch(car_name, i - 1) \notin WordChars
    /\ i + 3 = Len(car_name) \/ Ch(car_name, i + 4) \notin WordChars

Hatla2eeYear(car_name) ==
    LET starts == {i \in 1..Len(car_name) : YearMatchAt(car_name, i)}
    IN  IF starts = {} THEN NA
        ELSE LET i == CHOOSE k \in starts : \A j \in starts : k <= j
             IN  SubSeq(car_name, i, i + 3)

\* The body of scrape_hatla2ee_cars' loop for one card.
Hatla2eeCar(card, dealer_code, current_time) ==
    LET car_name == TextOrNA(card.header)
        car_brand == ExtractCarBrand(car_name)
        price == Hatla2eePrice(card.price)
        kilometrage == Hatla2eeKilometrage(card.meta_tags, NA)
        location == Hatla2eeLocation(card.meta_tags, NA)
        year == Hatla2eeYear(car_name)
        listing_url == IF card.header.present /\ card.href.present
                       THEN "https://eg.hatla2ee.com" \o card.href.text
                       ELSE ""
        listing_time == TextOrNA(card.date)
        car_details == Hatla2eeCarDetails(dealer_code, car_name, year, kilometrage)
    IN  IF ~car_brand.ok THEN car_brand
        ELSE Return([car_id |-> Md5(car_details),
                     dealer_code |-> dealer_code,
                     created_at |-> current_time,
                     Car_Brand |-> car_brand.val,
                     Car_Name |-> car_name,
                     Price |-> price,
                     Kilometrage |-> kilometrage,
                     Year |-> year,
                     Location |-> location,
                     Listed |-> listing_time,
                     Listing_URL |-> listing_url])

\* The for loop of an adapter over the cards of a page: cars_data, or the
\* exception that ended the loop.
RECURSIVE ScrapeLoop(_, _, _, _, _)
ScrapeLoop(site, car_listings, dealer_code, current_time, cars_data) ==
    IF car_listings = <<>> THEN Return(cars_data)
    ELSE LET car == IF site = "dubizzle"
                    THEN DubizzleCar(Head(car_listings), dealer_code, current_time)
                    ELSE Hatla2eeCar(Head(car_listings), dealer_code, current_time)
         IN  IF ~car.ok THEN car
             ELSE ScrapeLoop(site, Tail(car_listings), dealer_code, current_time,
                             Append(cars_data, car.val))

\* What requests.get gives: it raises, or it returns a response with a
\* status code and, under status 200, a page of listing cards.
ConnectionError == [raised |-> TRUE, status_code |-> 0, cards |-> <<>>]
HttpResponse(status_code, cards) ==
    [raised |-> FALSE, status_code |-> status_code, cards |-> cards]

\* scrape_dubizzle_cars / scrape_hatla2ee_cars on the response `resp`.
Scrape(site, resp, dealer_code, current_time) ==
    IF resp.raised THEN Raise("ConnectionError")
    ELSE IF resp.status_code # 200 THEN Return(<<>>)
    ELSE ScrapeLoop(site, resp.cards, dealer_code, current_time, <<>>)

\* determine_website_type
DetermineWebsiteType(url) ==
    IF Contains("dubizzle.com", Lower(url)) THEN "dubizzle"
    ELSE IF Contains("hatla2ee.com", Lower(url)) THEN "hatla2ee"
    ELSE "unknown"

-----------------------------------------------------------------------------
(* main(): the run over the dealers.                                       *)

\* The header row main() appends to an empty database tab (db_headers): a
\* row like the others, each cell holding its column's name; get_all_records
\* never returns it.
HeaderRow ==
    [car_id |-> Md5("car_id"), dealer_code |-> "dealer_code", created_at |-> -1,
     Car_Brand |-> "Car Brand", Car_Name |-> "Car Name", Price |-> "Price",
     Kilometrage |-> "Kilometrage", Year |-> "Year", Location |-> "Location",
     Listed |-> "Listed", Listing_URL |-> "Listing URL", status |-> "status",
     platform |-> "platform"]

\* A reading of the tab that takes its first two rows for headers.
GetAllRecordsSkipsFirstRow(values) ==
    IF Len(values) < 2 THEN <<>> ELSE Tail(Tail(values))

\* database_sheet.get_all_records(): the rows under the header row.
GetAllRecords(values) == IF values = <<>> THEN <<>> ELSE Tail(values)

\* `{row.get('car_id', '') for row in existing_data if row.get('car_id')}`;
\* a digest is never the empty text, so no row is left out.
ExistingCarIds(existing_data) ==
    {existing_data[i].car_id : i \in DOMAIN existing_data}

\* f"{car['Car Name']}_{car['Year']}_{car['Kilometrage']}"
CarKey(car) == car.Car_Name \o "_" \o car.Year \o "_" \o car.Kilometrage

\* The inner loop over unique_cars: the first entry with the key gets the
\* platform of `car` added to its platform text.
RECURSIVE AddPlatform(_, _, _)
AddPlatform(unique, i, car) ==
    IF i > Len(unique) THEN unique
    ELSE IF CarKey(unique[i]) = CarKey(car)
         THEN [unique EXCEPT ![i].platform = unique[i].platform \o ", " \o car.platform]
         ELSE AddPlatform(unique, i + 1, car)

\* The loop "Deduplicate cars across platforms" over all_cars.
RECURSIVE DedupLoop(_, _, _)
DedupLoop(cars, unique, seen_cars) ==
    IF cars = <<>> THEN unique
    ELSE LET car == Head(cars)
             car_key == CarKey(car)
         IN  IF car_key \notin seen_cars
             THEN DedupLoop(Tail(cars), Append(unique, car), seen_cars \cup {car_key})
             ELSE DedupLoop(Tail(cars), AddPlatform(unique, 1, car), seen_cars)

\* A classification with the two statuses exchanged.
StatusOfInverted(car, ids) == IF car.car_id \in ids THEN "new" ELSE "existing"

\* `car['status']` of the loop over unique_cars.
StatusOf(car, ids) == IF car.car_id \in ids THEN "existing" ELSE "new"

\* A run that only writes the cars it has not seen before.
RowsToAddNewOnly(cars, ids) ==
    SelectSeq([i \in DOMAIN cars |-> [status |-> "new"] @@ cars[i]],
              LAMBDA row : row.car_id \notin ids)

\* rows_to_add: every car of unique_cars with its status.
RowsToAdd(cars, ids) ==
    [i \in DOMAIN cars |-> [status |-> StatusOf(cars[i], ids)] @@ cars[i]]

NewAmong(rows) == Cardinality({i \in DOMAIN rows : rows[i].status = "new"})

\* `for car in cars: car['platform'] = ...`
WithPlatform(cars, platform) ==
    [i \in DOMAIN cars |-> [platform |-> platform] @@ cars[i]]

-----------------------------------------------------------------------------
(* load_data of the dashboard: which listings are expired.                 *)

\* `.str.replace('EGP ', '').str.replace(',', '')`
RECURSIVE Without(_, _)
Without(s, sub) ==
    IF Len(s) < Len(sub) \/ s = "" THEN s
    ELSE IF SubSeq(s, 1, Len(sub)) = sub
         THEN Without(From(s, Len(sub) + 1), sub)
         ELSE Ch(s, 1) \o Without(From(s, 2), sub)

\* Whether astype(float) takes the price text: the texts the adapters write
\* are "N/A" and "EGP " with digits and commas, so a text is taken when it
\* is a non-empty run of digits.
ParsesAsFloat(s) == s # "" /\ \A i \in 1..Len(s) : Ch(s, i) \in Digits

\* pd.Timedelta(days=3)
FreshnessWindowDays == 3

MaxOf(S) == CHOOSE x \in S : \A y \in S : y <= x

\* df.sort_values('created at', ascending=False): rows of equal time are
\* left in the order they have.
RECURSIVE InsertByTime(_, _)
InsertByTime(row, sorted) ==
    IF sorted = <<>> THEN <<row>>
    ELSE IF row.created_at > Head(sorted).created_at
         THEN <<row>> \o sorted
         ELSE <<Head(sorted)>> \o InsertByTime(row, Tail(sorted))

RECURSIVE SortNewestFirst(_)
SortNewestFirst(rows) ==
    IF rows = <<>> THEN <<>>
    ELSE InsertByTime(Head(rows), SortNewestFirst(Tail(rows)))

\* The expired identifiers when a listing last seen exactly three days before
\* the newest row counts as expired too.
ExpiredCarIdsInclusive(data) ==
    LET latest_date == MaxOf({data[i].created_at : i \in DOMAIN data})
        three_days_ago == latest_date - FreshnessWindowDays
        last_seen(id) == MaxOf({data[i].created_at :
                                   i \in {k \in DOMAIN data : data[k].car_id = id}})
    IN  {id \in {data[i].car_id : i \in DOMAIN data} : last_seen(id) <= three_days_ago}

\* expired_car_ids: the identifiers whose most recent row is older than
\* three_days_ago.
ExpiredCarIds(data) ==
    LET latest_date == MaxOf({data[i].created_at : i \in DOMAIN data})
        three_days_ago == latest_date - FreshnessWindowDays
        last_seen(id) == MaxOf({data[i].created_at :
                                   i \in {k \in DOMAIN data : data[k].car_id = id}})
    IN  {id \in {data[i].car_id : i \in DOMAIN data} : last_seen(id) < three_days_ago}

\* load_data on the records of the database tab: the table with its
\* 'expired' column, or the empty table its except clause returns (an empty
\* tab has no 'dealer_code' column; a price that is no number stops astype).
LoadData(data) ==
    IF data = <<>> THEN Return(<<>>)
    ELSE IF \E i \in DOMAIN data :
                ~ParsesAsFloat(Without(Without(data[i].Price, "EGP "), ","))
    THEN Return(<<>>)
    ELSE LET expired_car_ids == ExpiredCarIds(data)
             df == [i \in DOMAIN data |->
                      [expired |-> data[i].car_id \in expired_car_ids] @@ data[i]]
         IN  Return(SortNewestFirst(df))

-----------------------------------------------------------------------------
(* Calls of the pure functions, one per specification.                     *)

\* main() is not running and has never run: the state of a specification
\* that only calls one function.
MainIdle ==
    /\ dealers_data = <<>>
    /\ sheet = <<>>
    /\ run = 0
    /\ now = 0
    /\ pc = "ended"
    /\ d = 0
    /\ all_cars = <<>>
    /\ unique_cars = <<>>
    /\ existing_car_ids = {}
    /\ total_cars_added = 0
    /\ new_cars_added = 0
    /\ response = "none"
    /\ error = "none"
    /\ printed = <<>>

NoCall == [fn |-> "none", arg |-> "", state |-> "return", ret |-> Return("")]

Pending(fn, arg) == [fn |-> fn, arg |-> arg, state |-> "call", ret |-> Return("")]

Returned(fn) == call.fn = fn /\ call.state = "return"

-----------------------------------------------------------------------------
(* The world main() runs in: the dealers tab and the pages of the sites.   *)

DubizzleCard(name, price, km, year, time, location, href) ==
    [name |-> name, price |-> price, km |-> km, year |-> year, time |-> time,
     location |-> location, href |-> href]

Hatla2eeCard(header, href, price, meta_tags, date) ==
    [header |-> header, href |-> href, price |-> price, meta_tags |-> meta_tags,
     date |-> date]

\* A listing, the same listing at another price, another listing without a
\* price element, and a card whose title element is empty.
KiaOnDubizzle ==
    DubizzleCard(Elem(" Kia Rio 2020 "), Elem("EGP 500,000"), Elem("5 Km"), Elem("2020"),
                 Elem("2 days ago"), Elem("Cairo"), Elem("/ad/1"))
KiaOnDubizzleCheaper ==
    DubizzleCard(Elem("Kia Rio 2020"), Elem("EGP 450,000"), Elem("5 Km"), Elem("2020"),
                 Elem("3 hours ago"), Elem("Giza"), Elem("/ad/2"))
LadaOnDubizzle ==
    DubizzleCard(Elem("Lada Niva"), NoElem, Elem("9 Km"), Elem("2019"),
                 NoElem, NoElem, NoElem)
UntitledOnDubizzle ==
    DubizzleCard(Elem(""), Elem("EGP 1"), NoElem, NoElem, NoElem, NoElem, NoElem)

\* The first listing as the other site shows it, and a listing of its own.
KiaOnHatla2ee ==
    Hatla2eeCard(Elem("Kia Rio 2020"), Elem("/car/1"), Elem(" 480,000 EGP "),
                 <<"5 Km", "Cairo">>, Elem("2026-10-30"))
BmwOnHatla2ee ==
    Hatla2eeCard(Elem("BMW 320 2021"), NoElem, NoElem, <<"Automatic">>, NoElem)

Dealer(code, name, link1, link2) ==
    [Code |-> code, Dealer |-> name, Link1 |-> link1, Link2 |-> link2]

DubizzleD1 == "https://www.dubizzle.com.eg/d1"
Hatla2eeD1 == "https://eg.hatla2ee.com/d1"
DubizzleD2 == "HTTPS://WWW.DUBIZZLE.COM.EG/D2"
Hatla2eeD3 == "https://eg.hatla2ee.com/d3"
ElsewhereD2 == "https://example.org/d2"

\* The dealers tabs the runs are checked on.
DealerTabs ==
    {<<Dealer("D1", "One", DubizzleD1, Hatla2eeD1),
       Dealer("D2", "Two", ElsewhereD2, DubizzleD2)>>,
     <<Dealer("D3", "Three", Hatla2eeD3, "")>>}

\* The pages a URL may show when it answers with status 200.
Pages(url) ==
    IF url = DubizzleD1
    THEN {<<KiaOnDubizzle, KiaOnDubizzleCheaper>>, <<LadaOnDubizzle, UntitledOnDubizzle>>}
    ELSE IF url = DubizzleD2
    THEN {<<LadaOnDubizzle>>}
    ELSE {<<KiaOnHatla2ee>>, <<BmwOnHatla2ee, KiaOnHatla2ee>>}

\* What requests.get can give for a URL.
Responses(url) ==
    {ConnectionError, HttpResponse(404, <<>>)}
        \cup {HttpResponse(200, page) : page \in Pages(url)}

\* How many times main() is run.
MaxRuns == 2

-----------------------------------------------------------------------------
(* The steps of main().                                                    *)

Init ==
    /\ dealers_data \in DealerTabs
    /\ sheet = <<>>
    /\ run = 0
    /\ now = 0
    /\ pc = "ended"
    /\ d = 0
    /\ all_cars = <<>>
    /\ unique_cars = <<>>
    /\ existing_car_ids = {}
    /\ total_cars_added = 0
    /\ new_cars_added = 0
    /\ response = "none"
    /\ error = "none"
    /\ printed = <<>>
    /\ call = NoCall

\* The lines scrape_dubizzle_cars and scrape_hatla2ee_cars print around
\* requests.get.  (The line hatla2ee prints for a posting date it cannot
\* parse belongs to the 'Days on Website' cell, which is left out.)
ScrapePrints(resp) ==
    <<"Scraping">>
        \o (IF ~resp.raised /\ resp.status_code # 200
            THEN <<"Failed to retrieve the page">> ELSE <<>>)

\* The lines main() prints after the loop.
TotalsPrints(total) ==
    <<"Total", "New cars">>
        \o (IF total > 0 THEN <<"Data also saved">>
            ELSE <<"No car listings found for any dealer">>)

\* main() returns, after the step has printed `lines`: through its except
\* clause, which prints the exception, or from the end of the loop; its
\* locals are gone.
Ended(exception, lines) ==
    /\ pc' = "ended"
    /\ error' = exception
    /\ printed' = lines \o (IF exception = "none" THEN <<>> ELSE <<"An error occurred">>)
    /\ d' = 0
    /\ all_cars' = <<>>
    /\ unique_cars' = <<>>
    /\ existing_car_ids' = {}
    /\ total_cars_added' = 0
    /\ new_cars_added' = 0

\* The next iteration of `for dealer in dealers_data`, or the end of the
\* loop: the totals are printed (and the sheet is copied to a CSV file).
NextDealer(lines) ==
    IF d < Len(dealers_data)
    THEN /\ d' = d + 1
         /\ pc' = "link1"
         /\ all_cars' = <<>>
         /\ unique_cars' = <<>>
         /\ response' = "none"
         /\ printed' = lines
         /\ UNCHANGED <<existing_car_ids, total_cars_added, new_cars_added, error>>
    ELSE /\ Ended("none", lines \o TotalsPrints(total_cars_added))
         /\ response' = "none"

\* main() up to the loop: the two tabs are read, the header row is written
\* to an empty database tab.
StartRun ==
    /\ pc = "ended"
    /\ run < MaxRuns
    /\ run' = run + 1
    /\ now' = now + 1
    /\ sheet' = IF sheet = <<>> THEN <<HeaderRow>> ELSE sheet
    /\ existing_car_ids' = ExistingCarIds(GetAllRecords(sheet))
    /\ total_cars_added' = 0
    /\ new_cars_added' = 0
    /\ error' = "none"
    /\ response' = "none"
    /\ all_cars' = <<>>
    /\ unique_cars' = <<>>
    /\ IF dealers_data = <<>>
       THEN pc' = "ended" /\ d' = 0 /\ printed' = TotalsPrints(0)
       ELSE pc' = "link1" /\ d' = 1 /\ printed' = <<>>
    /\ UNCHANGED <<dealers_data, call>>

\* "Process Link 1" / "Process Link 2" for the link `link` of the dealer.
ProcessLink(link, next_pc) ==
    LET dealer_code == dealers_data[d].Code
        website_type == DetermineWebsiteType(link)
        skip(lines) ==
                /\ pc' = next_pc
                /\ response' = "none"
                /\ printed' = lines
                /\ UNCHANGED <<d, all_cars, unique_cars, existing_car_ids,
                               total_cars_added, new_cars_added, error>>
    IN  /\ IF link = "" THEN skip(<<>>)
           ELSE IF website_type = "unknown" THEN skip(<<"Processing dealer">>)
           ELSE \E resp \in Responses(link) :
                  LET cars == Scrape(website_type, resp, dealer_code, now)
                      lines == <<"Processing dealer">> \o ScrapePrints(resp)
                  IN  /\ response' = IF resp.raised THEN "ConnectionError"
                                     ELSE IF resp.status_code # 200 THEN "error status"
                                     ELSE "ok"
                      /\ IF cars.ok
                         THEN /\ all_cars' = all_cars \o WithPlatform(cars.val, website_type)
                              /\ pc' = next_pc
                              /\ printed' = lines
                              /\ UNCHANGED <<d, unique_cars, existing_car_ids,
                                             total_cars_added, new_cars_added, error>>
                         ELSE Ended(cars.val, lines)
        /\ UNCHANGED <<dealers_data, sheet, run, now, call>>

ProcessLink1 == pc = "link1" /\ ProcessLink(dealers_data[d].Link1, "link2")

ProcessLink2 == pc = "link2" /\ ProcessLink(dealers_data[d].Link2, "dedup")

\* "Deduplicate cars across platforms", and `if not unique_cars: continue`.
Deduplicate ==
    /\ pc = "dedup"
    /\ LET unique == DedupLoop(all_cars, <<>>, {})
       IN  IF unique = <<>>
           THEN NextDealer(<<"No car listings found for">>)
           ELSE /\ unique_cars' = unique
                /\ pc' = "rows"
                /\ printed' = <<"Found unique car listings for">>
                /\ UNCHANGED <<d, all_cars, existing_car_ids, total_cars_added,
                               new_cars_added, response, error>>
    /\ UNCHANGED <<dealers_data, sheet, run, now, call>>

\* The classification and append_rows placed before "Process Link 2": the
\* dealer's second link is fetched after the dealer's rows were written.
AppendRowsBeforeLink2 ==
    /\ pc = "rows"
    /\ LET rows_to_add == RowsToAdd(unique_cars, existing_car_ids)
       IN  /\ sheet' = sheet \o rows_to_add
           /\ unique_cars' = rows_to_add
           /\ total_cars_added' = total_cars_added + Len(rows_to_add)
           /\ new_cars_added' = new_cars_added + NewAmong(rows_to_add)
    /\ pc' = "link2"
    /\ printed' = <<"Added car listings for", "New cars">>
    /\ UNCHANGED <<dealers_data, run, now, d, all_cars, existing_car_ids,
                   response, error, call>>

\* The loop that gives every car its status, and append_rows.
AppendRows ==
    /\ pc = "rows"
    /\ LET rows_to_add == RowsToAdd(unique_cars, existing_car_ids)
       IN  /\ sheet' = sheet \o rows_to_add
           /\ unique_cars' = rows_to_add
           /\ total_cars_added' = total_cars_added + Len(rows_to_add)
           /\ new_cars_added' = new_cars_added + NewAmong(rows_to_add)
    /\ pc' = "sleep"
    /\ printed' = <<"Added car listings for", "New cars">>
    /\ UNCHANGED <<dealers_data, run, now, d, all_cars, existing_car_ids,
                   response, error, call>>

\* time.sleep(2), the last statement of the loop body.
Sleep ==
    /\ pc = "sleep"
    /\ NextDealer(<<>>)
    /\ UNCHANGED <<dealers_data, sheet, run, now, call>>

Next ==
    \/ StartRun
    \/ ProcessLink1
    \/ ProcessLink2
    \/ Deduplicate
    \/ AppendRows
    \/ Sleep

Spec == Init /\ [][Next]_vars

-----------------------------------------------------------------------------
(* Properties of the runs.                                                 *)

\* The history: the rows of the database tab under its header row.
History == SubSeq(sheet, 2, Len(sheet))

\* The source names a platform text lists: the text cut at every ", ".
RECURSIVE SourcesLoop(_, _, _)
SourcesLoop(text, cur, acc) ==
    IF text = "" THEN Append(acc, cur)
    ELSE IF Len(text) >= 2 /\ SubSeq(text, 1, 2) = ", "
         THEN SourcesLoop(From(text, 3), "", Append(acc, cur))
         ELSE SourcesLoop(From(text, 2), cur \o Ch(text, 1), acc)

Sources(platform) == SourcesLoop(platform, "", <<>>)

SameTriple(a, b) ==
    /\ a.Car_Name = b.Car_Name
    /\ a.Year = b.Year
    /\ a.Kilometrage = b.Kilometrage

\* The sources of the records of `cars` that match `car`, each once, in the
\* order they are first met.
RECURSIVE MatchingSources(_, _, _)
MatchingSources(cars, car, acc) ==
    IF cars = <<>> THEN acc
    ELSE LET c == Head(cars)
             seen == {acc[k] : k \in DOMAIN acc}
         IN  MatchingSources(Tail(cars), car,
                 IF SameTriple(c, car) /\ c.platform \notin seen
                 THEN Append(acc, c.platform) ELSE acc)

\* C1: a fetch that fails (a status other than 200, or an error raised by
\* the HTTP call) adds no record and the run goes on with the dealer's next
\* link or with the merge; it never ends the run.
C1_FailedFetchNeverEndsRun ==
    [][(pc \in {"link1", "link2"} /\ response' \in {"error status", "ConnectionError"})
         => (all_cars' = all_cars /\ pc' \in {"link2", "dedup"})]_vars

\* C3: after the merge, the source field of every surviving record lists
\* every source that produced a matching record exactly once, in encounter
\* order.
C3_SourcesListedOnce ==
    pc = "rows" =>
        \A i \in DOMAIN unique_cars :
            Sources(unique_cars[i].platform)
                = MatchingSources(all_cars, unique_cars[i], <<>>)

\* C4: a row has status "new" exactly when no row of an earlier run (the
\* history the run read) has its identifier, and "existing" otherwise; and
\* once a dealer's rows are appended, the rows of this run for the dealer
\* are the merged records of the dealer, one row per record, in order.
C4_StatusAndAppend ==
    /\ \A i \in DOMAIN History :
          LET row == History[i]
              known == \E j \in DOMAIN History :
                          /\ History[j].created_at < row.created_at
                          /\ History[j].car_id = row.car_id
          IN  row.status = IF known THEN "existing" ELSE "new"
    /\ pc = "sleep" =>
          LET merged == DedupLoop(all_cars, <<>>, {})
              added == SelectSeq(History,
                           LAMBDA r : r.created_at = now /\ r.dealer_code = dealers_data[d].Code)
          IN  /\ Len(added) = Len(merged)
              /\ \A i \in DOMAIN merged :
                    /\ added[i].car_id = merged[i].car_id
                    /\ added[i].Car_Name = merged[i].Car_Name
                    /\ added[i].platform = merged[i].platform

\* A run has appended a new row and an existing row for the same dealer.
C4_Witness ==
    /\ pc = "sleep"
    /\ \E i, j \in DOMAIN History :
          /\ History[i].created_at = now /\ History[j].created_at = now
          /\ History[i].dealer_code = History[j].dealer_code
          /\ History[i].status = "new" /\ History[j].status = "existing"

\* C5: a record scraped again in a later run, against the history an earlier
\* run left, is classified "existing", never "new".
C5_RescrapedIsExisting ==
    \A i, j \in DOMAIN History :
        (History[i].created_at < History[j].created_at
            /\ History[i].car_id = History[j].car_id)
        => History[j].status = "existing"

\* The rows of the run at time t.
RowsOfRun(t) == SelectSeq(History, LAMBDA r : r.created_at = t)

CarIdsOf(rows) == {rows[i].car_id : i \in DOMAIN rows}

\* Two runs have ended that scraped the same records, and every row of the
\* second is "existing".
C5_Witness ==
    /\ pc = "ended" /\ run = 2
    /\ RowsOfRun(1) # <<>>
    /\ CarIdsOf(RowsOfRun(1)) = CarIdsOf(RowsOfRun(2))
    /\ Len(RowsOfRun(1)) = Len(RowsOfRun(2))
    /\ \A i \in DOMAIN RowsOfRun(2) : RowsOfRun(2)[i].status = "existing"

SameFingerprintInputs(a, b) ==
    /\ a.dealer_code = b.dealer_code
    /\ a.Car_Name = b.Car_Name
    /\ a.Year = b.Year
    /\ a.Kilometrage = b.Kilometrage

\* C7: two records that agree on dealer code, title, model year and mileage
\* text have the same identifier, whichever adapter and run produced them and
\* whatever their other fields.
C7_IdentifierFromFourFields ==
    \A i, j \in DOMAIN History :
        SameFingerprintInputs(History[i], History[j])
            => History[i].car_id = History[j].car_id

\* The history holds the same listing from the two adapters, scraped in two
\* runs at two prices.
C7_Witness ==
    \E i, j \in DOMAIN History :
        /\ SameFingerprintInputs(History[i], History[j])
        /\ History[i].platform = "dubizzle, dubizzle"
        /\ History[j].platform = "hatla2ee"
        /\ History[i].Price # History[j].Price
        /\ History[i].Listing_URL # History[j].Listing_URL
        /\ History[i].created_at # History[j].created_at

-----------------------------------------------------------------------------
(* The brand classifier on its own.                                        *)

\* The titles the classifier is run on.
MaxTitleLen == 4
TitleAlphabet == {"M", "g", "K", "i", "a", " "}
Titles ==
    StringsUpTo(TitleAlphabet, MaxTitleLen)
        \cup {NA, "n/a", "\t", "MG Kia", "Kia MG", "kia mg", "Mini Cooper 2020",
              "Land Rover Range Rover", "Range Rover Land Rover", " Lada  Niva "}

InitBrand == MainIdle /\ \E t \in Titles : call = Pending("extract_car_brand", t)

CallExtractCarBrand ==
    /\ call.fn = "extract_car_brand"
    /\ call.state = "call"
    /\ call' = [call EXCEPT !.state = "return", !.ret = ExtractCarBrand(call.arg)]
    /\ UNCHANGED mainVars

SpecBrand == InitBrand /\ [][CallExtractCarBrand]_vars

\* C9: the brand classifier returns a string for every title, the empty and
\* the all-whitespace title included; it never raises.
C9_ClassifierNeverRaises ==
    Returned("extract_car_brand") => call.ret.ok

\* The catalog entries that are case-insensitive substrings of the title.
Matching(title) == {i \in DOMAIN Brands : BrandMatches(i, title)}

NoWhitespace(s) == \A k \in 1..Len(s) : Ch(s, k) \notin Whitespace

\* s[i..j] is the first whitespace-delimited token of s.
IsFirstToken(s, i, j) ==
    /\ i <= j
    /\ NoWhitespace(SubSeq(s, i, j))
    /\ \A k \in 1..(i - 1) : Ch(s, k) \in Whitespace
    /\ j = Len(s) \/ Ch(s, j + 1) \in Whitespace

\* C10: the sentinel is returned unchanged; otherwise the first catalog
\* entry, in catalog order, that is a case-insensitive substring of the title
\* is returned; and when no entry matches, the first whitespace-delimited
\* token of the title is returned.
C10_ClassifierResult ==
    Returned("extract_car_brand") =>
        LET title == call.arg
            ret == call.ret
            matching == Matching(title)
        IN  /\ title = NA => ret = Return(NA)
            /\ title # NA =>
                 /\ \A i \in matching :
                        (\A j \in matching : i <= j) => ret = Return(Brands[i])
                 /\ matching = {} =>
                        \A i, j \in 1..Len(title) :
                            IsFirstToken(title, i, j) => ret = Return(SubSeq(title, i, j))

\* A title holding two catalog names, the later catalog entry (MG) standing
\* first in the title, has been classified as the earlier entry (Kia).
C10_Witness ==
    /\ Returned("extract_car_brand")
    /\ call.arg = "MG Kia"
    /\ call.ret = Return("Kia")

-----------------------------------------------------------------------------
(* The digested text on its own.                                           *)

MaxFieldLen == 2
\* The field values: the short texts of a letter and the delimiter that hold
\* the letter.
FingerprintFields == {s \in StringsUpTo({"a", "_"}, MaxFieldLen) : Contains("a", s)}
FingerprintInputs ==
    FingerprintFields \X FingerprintFields \X FingerprintFields \X FingerprintFields

InitId == MainIdle /\ \E t \in FingerprintInputs : call = Pending("car_details", t)

CallCarDetails ==
    /\ call.fn = "car_details"
    /\ call.state = "call"
    /\ LET t == call.arg
       IN  call' = [call EXCEPT
                      !.state = "return",
                      !.ret = Return([dubizzle |-> DubizzleCarDetails(t[1], t[2], t[3], t[4]),
                                      hatla2ee |-> Hatla2eeCarDetails(t[1], t[2], t[3], t[4])])]
    /\ UNCHANGED mainVars

SpecId == InitId /\ [][CallCarDetails]_vars

\* C8: two 4-tuples (dealer code, title, model year, mileage text) that
\* differ in a field give different digested texts, in both adapters, also
\* when the fields hold the delimiter.
C8_DistinctInputsDistinctText ==
    Returned("car_details") =>
        \A t \in FingerprintInputs :
            t # call.arg =>
                /\ DubizzleCarDetails(t[1], t[2], t[3], t[4]) # call.ret.val.dubizzle
                /\ Hatla2eeCarDetails(t[1], t[2], t[3], t[4]) # call.ret.val.hatla2ee

-----------------------------------------------------------------------------
(* The merge on its own: one dealer's two links, every short page.         *)

MaxPageLen == 2

MergeDubizzleCards ==
    {DubizzleCard(Elem(name), Elem("EGP 1"), Elem("5 Km"), year, NoElem, NoElem, NoElem) :
        name \in {"Rio", "Rio_20"}, year \in {Elem("21"), Elem("20_21"), NoElem}}

MergeHatla2eeCards ==
    {Hatla2eeCard(Elem(name), NoElem, Elem("2 EGP"), <<"5 Km">>, NoElem) :
        name \in {"Rio", "Rio_20"}}

SeqsUpTo(S, n) == UNION {[1..k -> S] : k \in 0..n}

MergePages(site) ==
    SeqsUpTo(IF site = "dubizzle" THEN MergeDubizzleCards ELSE MergeHatla2eeCards,
             MaxPageLen)

\* main() has scraped the two links of its only dealer and stands before
\* the merge.
InitMerge ==
    /\ dealers_data = <<Dealer("D1", "One", DubizzleD1, Hatla2eeD1)>>
    /\ sheet = <<HeaderRow>>
    /\ run = 1
    /\ now = 1
    /\ pc = "dedup"
    /\ d = 1
    /\ \E site1, site2 \in {"dubizzle", "hatla2ee"} :
         \E page1 \in MergePages(site1), page2 \in MergePages(site2) :
            all_cars =
                WithPlatform(Scrape(site1, HttpResponse(200, page1), "D1", 1).val, site1)
                    \o WithPlatform(Scrape(site2, HttpResponse(200, page2), "D1", 1).val, site2)
    /\ unique_cars = <<>>
    /\ existing_car_ids = {}
    /\ total_cars_added = 0
    /\ new_cars_added = 0
    /\ response = "ok"
    /\ error = "none"
    /\ printed = <<"Processing dealer", "Scraping">>
    /\ call = NoCall

SpecMerge == InitMerge /\ [][Deduplicate]_vars

\* The records of `cars` that no earlier record of `cars` matches on
\* (title, model year, mileage text), in order.
FirstOfEachTriple(cars) ==
    LET firsts == {i \in DOMAIN cars : \A j \in 1..(i - 1) : ~SameTriple(cars[j], cars[i])}
        Nth[n \in 1..Cardinality(firsts)] ==
            CHOOSE i \in firsts : Cardinality({j \in firsts : j <= i}) = n
    IN  [n \in 1..Cardinality(firsts) |-> cars[Nth[n]]]

\* C2: the merge outputs one record per distinct (title, model year, mileage
\* text) triple, in order of first occurrence, with the scalar fields of the
\* first record of the triple; records merge only when the three fields are
\* equal.
C2_OneRecordPerTriple ==
    pc = "rows" =>
        LET firsts == FirstOfEachTriple(all_cars)
        IN  /\ Len(unique_cars) = Len(firsts)
            /\ \A i \in DOMAIN firsts :
                  /\ unique_cars[i].Car_Name = firsts[i].Car_Name
                  /\ unique_cars[i].Year = firsts[i].Year
                  /\ unique_cars[i].Kilometrage = firsts[i].Kilometrage
                  /\ unique_cars[i].Price = firsts[i].Price
                  /\ unique_cars[i].car_id = firsts[i].car_id
                  /\ unique_cars[i].Location = firsts[i].Location
                  /\ unique_cars[i].Listing_URL = firsts[i].Listing_URL

-----------------------------------------------------------------------------
(* The dashboard's load_data on its own.                                   *)

MaxDay == 4
MaxHistoryLen == 3

\* A row of the database tab as a run writes it.
HistoryRow(id, day, price) ==
    [car_id |-> Md5(id), dealer_code |-> "D1", created_at |-> day, Car_Brand |-> "Kia",
     Car_Name |-> "Kia Rio", Price |-> price, Kilometrage |-> "5 Km", Year |-> "2020",
     Location |-> NA, Listed |-> NA, Listing_URL |-> NA, status |-> "new",
     platform |-> "dubizzle"]

HistoryRows ==
    {HistoryRow(id, day, price) :
        id \in {"x", "y"}, day \in 0..MaxDay, price \in {"EGP 1,000", NA}}

\* Rows are appended with the time of their scrape: a tab is in time order.
InTimeOrder(rows) ==
    \A i, j \in DOMAIN rows : i < j => rows[i].created_at <= rows[j].created_at

InitStale ==
    /\ MainIdle
    /\ \E rows \in SeqsUpTo(HistoryRows, MaxHistoryLen) :
          /\ InTimeOrder(rows)
          /\ call = [fn |-> "load_data", arg |-> rows, state |-> "call", ret |-> Return(<<>>)]

CallLoadData ==
    /\ call.fn = "load_data"
    /\ call.state = "call"
    /\ call' = [call EXCEPT !.state = "return", !.ret = LoadData(call.arg)]
    /\ UNCHANGED mainVars

SpecStale == InitStale /\ [][CallLoadData]_vars

\* The newest observation time of the history.
Newest(rows) == MaxOf({rows[i].created_at : i \in DOMAIN rows})

\* The most recent observation time of an identifier.
LastSeen(rows, id) ==
    MaxOf({rows[i].created_at : i \in {k \in DOMAIN rows : rows[k].car_id = id}})

-----------------------------------------------------------------------------
(* The posted-age parser on its own.                                       *)

MaxCount == 40

\* str(n) for a natural number.
RECURSIVE DecimalText(_)
DecimalText(n) ==
    IF n < 10 THEN Ch(DigitLetters, n + 1)
    ELSE DecimalText(n \div 10) \o Ch(DigitLetters, (n % 10) + 1)

\* The unit words of the posted ages: the six units in both numbers, and
\* words that are none of them.
UnitWords ==
    {"minute", "minutes", "hour", "hours", "day", "days", "week", "weeks",
     "month", "months", "year", "years",
     "weekdays", "seconds", "Days", "moons"}

\* The posted-age texts the parser is run on.
ListingTimes ==
    {DecimalText(n) \o " " \o unit \o " ago" : n \in 0..MaxCount, unit \in UnitWords}
        \cup {NA, "", "garbage", "ago", "2 days", "2days ago", "two days ago",
              " 2 days ago", "2 days ago today", "2  days\tago", "007 days ago",
              "2 days AGO", "-2 days ago", "2.5 hours ago", "2 3 ago"}

InitTime == MainIdle /\ \E t \in ListingTimes : call = Pending("parse_listing_time", t)

CallParseListingTime ==
    /\ call.fn = "parse_listing_time"
    /\ call.state = "call"
    /\ call' = [call EXCEPT !.state = "return",
                            !.ret = Return(ParseListingTime(call.arg))]
    /\ UNCHANGED mainVars

SpecTime == InitTime /\ [][CallParseListingTime]_vars

AllIn(s, chars) == \A k \in 1..Len(s) : Ch(s, k) \in chars

\* The ways to read the start of `text` as "<n> <word> ago": digits up to
\* position a, whitespace up to b, a word up to c, whitespace up to e, then
\* "ago".  Each way is the pair of the count and the word.
Readings(text) ==
    LET L == Len(text)
    IN  UNION {UNION {UNION {
            {<<IntOf(SubSeq(text, 1, a)), SubSeq(text, b + 1, c)>> :
                e \in {x \in (c + 1)..L :
                          /\ AllIn(SubSeq(text, c + 1, x), Whitespace)
                          /\ SubSeq(text, x + 1, x + 3) = "ago"}} :
            c \in {x \in (b + 1)..L : AllIn(SubSeq(text, b + 1, x), WordChars)}} :
            b \in {x \in (a + 1)..L : AllIn(SubSeq(text, a + 1, x), Whitespace)}} :
            a \in {x \in 1..L : AllIn(SubSeq(text, 1, x), Digits)}}

SixUnits == {"minute", "hour", "day", "week", "month", "year"}

\* The word is the unit, in the singular or in the plural.
IsUnit(word, unit) == word = unit \/ word = unit \o "s"

\* h hundredths is a hundredth nearest to n / per_day.
NearestHundredth(h, n, per_day) ==
    LET diff == per_day * h - 100 * n
    IN  2 * diff <= per_day /\ 2 * (0 - diff) <= per_day

\* C11: the parser maps "<n> <unit> ago" to days: minutes to n/1440 and
\* hours to n/24, rounded to two decimals, days to n, weeks to 7n, months to
\* 30n and years to 365n ("35 minutes ago" gives 0.02, "2 days ago" 2 and
\* "3 weeks ago" 21); every text that does not fit the pattern, or whose unit
\* word is none of the six units, gives the unknown sentinel, and no text
\* gives an error.
C11_ListingTimeToDays ==
    Returned("parse_listing_time") =>
        LET text == call.arg
            days == call.ret.val
            readings == {r \in Readings(text) : \E unit \in SixUnits : IsUnit(r[2], unit)}
        IN  /\ call.ret.ok
            /\ readings = {} => days = DaysNA
            /\ \A r \in readings :
                  LET n == r[1]
                      word == r[2]
                      h == days.hundredths
                  IN  /\ days # DaysNA
                      /\ IsUnit(word, "minute") => NearestHundredth(h, n, 24 * 60)
                      /\ IsUnit(word, "hour") => NearestHundredth(h, n, 24)
                      /\ IsUnit(word, "day") => h = 100 * n
                      /\ IsUnit(word, "week") => h = 100 * (7 * n)
                      /\ IsUnit(word, "month") => h = 100 * (30 * n)
                      /\ IsUnit(word, "year") => h = 100 * (365 * n)
            /\ text = "35 minutes ago" => days.hundredths = 2
            /\ text = "2 days ago" => days.hundredths = 200
            /\ text = "3 weeks ago" => days.hundredths = 2100

-----------------------------------------------------------------------------
(* The adapters on pages whose cards lack sub-elements.                    *)

\* A sub-element that is there with the text, or is not there.
MaybeElem(text) == {Elem(text), NoElem}

\* The cards of a dubizzle page: every sub-element present or missing.
PartialDubizzleCards ==
    {DubizzleCard(name, price, km, year, time, location, href) :
        name \in MaybeElem("Kia Rio 2020"), price \in MaybeElem("EGP 500,000"),
        km \in MaybeElem("5 Km"), year \in MaybeElem("2020"),
        time \in MaybeElem("2 days ago"), location \in MaybeElem("Cairo"),
        href \in MaybeElem("/ad/1")}

\* The cards of a hatla2ee page: the header link with or without its href,
\* and the meta tags with or without the mileage and the city.
PartialHatla2eeCards ==
    {Hatla2eeCard(header, href, price, meta_tags, date) :
        header \in MaybeElem("Kia Rio 2020"), href \in MaybeElem("/car/1"),
        price \in MaybeElem(" 480,000 EGP "),
        meta_tags \in {<<>>, <<"5 Km">>, <<"Cairo">>, <<"5 Km", "Cairo">>},
        date \in MaybeElem("2026-10-30")}

\* The pages the adapters are run on: one card, or a card after another one.
PartialPages ==
    {[site |-> "dubizzle", cards |-> <<card>>] : card \in PartialDubizzleCards}
        \cup {[site |-> "dubizzle", cards |-> <<LadaOnDubizzle, card>>] :
                 card \in PartialDubizzleCards}
        \cup {[site |-> "hatla2ee", cards |-> <<card>>] : card \in PartialHatla2eeCards}
        \cup {[site |-> "hatla2ee", cards |-> <<BmwOnHatla2ee, card>>] :
                 card \in PartialHatla2eeCards}

InitCards == MainIdle /\ \E page \in PartialPages : call = Pending("scrape", page)

\* scrape_dubizzle_cars or scrape_hatla2ee_cars for the dealer D1, the site
\* answering with the page.
CallScrape ==
    /\ call.fn = "scrape"
    /\ call.state = "call"
    /\ call' = [call EXCEPT
                   !.state = "return",
                   !.ret = Scrape(call.arg.site, HttpResponse(200, call.arg.cards), "D1", 1)]
    /\ UNCHANGED mainVars

SpecCards == InitCards /\ [][CallScrape]_vars

\* C12: in both adapters every card of the page is emitted as one record,
\* and every extracted field (title, price, mileage, model year, location,
\* posted-age text, listing URL) whose sub-element is missing holds the
\* unknown sentinel, the same in both adapters.
C12_MissingFieldIsUnknown ==
    Returned("scrape") =>
        LET cards == call.arg.cards
            cars == call.ret.val
        IN  /\ call.ret.ok
            /\ Len(cars) = Len(cards)
            /\ \A i \in DOMAIN cards :
                  LET card == cards[i]
                      car == cars[i]
                  IN  IF call.arg.site = "dubizzle"
                      THEN /\ ~card.name.present => car.Car_Name = NA
                           /\ ~card.price.present => car.Price = NA
                           /\ ~card.km.present => car.Kilometrage = NA
                           /\ ~card.year.present => car.Year = NA
                           /\ ~card.location.present => car.Location = NA
                           /\ ~card.time.present => car.Listed = NA
                           /\ ~card.href.present => car.Listing_URL = NA
                      ELSE /\ ~card.header.present => car.Car_Name = NA /\ car.Year = NA
                           /\ ~card.price.present => car.Price = NA
                           /\ (\A k \in DOMAIN card.meta_tags :
                                   ~Contains("Km", card.meta_tags[k]))
                                 => car.Kilometrage = NA
                           /\ (\A k \in DOMAIN card.meta_tags :
                                   \A city \in Cities : ~Contains(city, card.meta_tags[k]))
                                 => car.Location = NA
                           /\ ~card.date.present => car.Listed = NA
                           /\ ~(card.header.present /\ card.href.present)
                                 => car.Listing_URL = NA

-----------------------------------------------------------------------------
(* The database tab over the runs.                                         *)

IsPrefix(s, t) == Len(s) <= Len(t) /\ SubSeq(t, 1, Len(s)) = s

\* C13: the history is append-only.  Whatever a step of a run does, every
\* row the tab held before is still there, unchanged and in its position; a
\* step that adds rows to the history adds exactly one per merged record the
\* run classified, the record with its status.  (The only other row ever
\* written is the header row of an empty tab.)
C13_HistoryAppendOnly ==
    [][/\ IsPrefix(sheet, sheet')
       /\ sheet' # sheet =>
            \/ sheet = <<>> /\ sheet' = <<HeaderRow>>
            \/ /\ pc = "rows"
               /\ Len(sheet') = Len(sheet) + Len(unique_cars)
               /\ \A i \in DOMAIN unique_cars :
                     LET row == sheet'[Len(sheet) + i]
                         car == unique_cars[i]
                     IN  /\ row.status \in {"new", "existing"}
                         /\ [field \in DOMAIN car |-> row[field]] = car]_vars

\* The second run has ended early on an error after it had added rows, and
\* the tab holds rows of the first run before rows of the second.
C13_Witness ==
    /\ pc = "ended"
    /\ run = 2
    /\ error # "none"
    /\ \E i, j \in DOMAIN History :
          /\ i < j
          /\ History[i].created_at = 1
          /\ History[j].created_at = 2

-----------------------------------------------------------------------------
(* The order of the fetches, the pause and the writes within a run.        *)

\* C14: the dealers are processed one after the other, and the fixed pause
\* lies between every two consecutive dealer iterations: the loop moves from
\* a dealer to the next one only by the step of the pause, whatever the
\* earlier dealer's fetches returned, no listings included.
C14_PauseBetweenDealers ==
    [][(d >= 1 /\ d' >= 1 /\ d' # d) => (d' = d + 1 /\ pc = "sleep")]_vars

\* The link the step at pc processes.
CurrentLink == IF pc = "link1" THEN dealers_data[d].Link1 ELSE dealers_data[d].Link2

KnownSites == {"dubizzle.com", "hatla2ee.com"}

\* C15: a source URL that holds the name of no known site, in any case of
\* its letters, yields no records and a logged warning, is not fatal, and
\* the run goes on with the dealer's other URL or with what follows it.
C15_UnknownHostWarned ==
    [][(/\ pc \in {"link1", "link2"}
        /\ CurrentLink # ""
        /\ \A site \in KnownSites : ~Contains(site, Lower(CurrentLink)))
         => /\ all_cars' = all_cars
            /\ response' = "none"
            /\ \E i \in DOMAIN printed' : printed'[i] # "Processing dealer"
            /\ error' = "none"
            /\ d' = d
            /\ pc' = IF pc = "link1" THEN "link2" ELSE "dedup"]_vars

\* A step in which a listing page is requested.
Fetches == pc \in {"link1", "link2"} /\ response' # "none"

\* C16: reconciliation happens once per run, after all fetches: no row is
\* in the history of the run, and no record is classified, when a page is
\* still requested in that run.
C16_NoRowBeforeLastFetch ==
    [][Fetches => /\ \A i \in DOMAIN History : History[i].created_at # now
                  /\ unique_cars = <<>>]_vars

\* C16 as amended: reconciliation happens once per dealer, after the fetches
\* of that dealer: when a page is requested, no record of the dealer's
\* iteration has been merged or classified, and rows are written only by
\* the step that follows the classification, all of them rows of the dealer
\* in the loop.
C16_ReconciledPerDealer ==
    [][/\ Fetches => unique_cars = <<>>
       /\ (sheet' # sheet /\ sheet # <<>>) =>
             /\ pc = "rows"
             /\ \A i \in (Len(sheet) + 1)..Len(sheet') :
                   sheet'[i].dealer_code = dealers_data[d].Code]_vars

\* The page of the second dealer has been fetched while the history holds
\* rows that the same run wrote for the first dealer.
C16_Witness ==
    /\ d = 2
    /\ pc = "dedup"
    /\ response = "ok"
    /\ \E i \in DOMAIN History :
          History[i].created_at = now /\ History[i].dealer_code = "D1"

====
